---------------------------- MODULE Spec2Model ----------------------------
(***************************************************************************)
(* xirr of src/main.py as a state machine: _year_fractions, the validation *)
(* of the amounts, the Newton stage, the bracket scan and the bracketed    *)
(* solve, each call of xirr running from "Start" to "Done" (a return) or   *)
(* "Fault" (an exception that leaves xirr).                                *)
(*                                                                         *)
(* Numbers.  A rate is an integer n standing for n / RScale, so 1 + rate   *)
(* is B / RScale with B = RScale + n, and rate > -1 is B > 0.  One grid    *)
(* unit is the tolerance tol.  Dates are day numbers that are whole        *)
(* multiples of day_count, so every time is a whole number of years and    *)
(* (1 + rate) ** t is an exact rational.  A float has a finite exponent    *)
(* range: a power below 1 / FloatMax is 0.0 (and dividing by it is a       *)
(* ZeroDivisionError for a Python float, inf for a numpy scalar), a power  *)
(* above FloatMax is an OverflowError for a Python float and inf for a     *)
(* numpy scalar.  The scan window, the step count and the iteration budget *)
(* are the program's, scaled down to this grid.                            *)
(***************************************************************************)
EXTENDS Integers, Sequences, FiniteSets

\* ------------------------------------------------------------------ bounds
MaxLen == 2        \* longest cash-flow series drawn
MaxAmt == 1        \* small amounts are drawn from -MaxAmt .. MaxAmt
MaxYear == 3       \* dates are drawn from year 0 .. MaxYear
RScale == 4        \* grid units per 1.0 of rate
FloatMax == 16     \* largest finite float; the smallest positive one is 1 / FloatMax
ScanStep == 3      \* grid units between two scan samples
n_steps == 4       \* number of scan steps (200 in the program)
maxiter == 3       \* newton's iteration budget (100 in the program)

\* ------------------------------------------------------- program parameters
day_count == 365                          \* days per year (a whole number here)
tol == 1                                  \* the tolerance: one grid unit
scan_min == 1 - RScale                    \* the lowest grid rate above -1
scan_max == scan_min + n_steps * ScanStep
step == (scan_max - scan_min) \div n_steps

\* ------------------------------------------------------------------ inputs
\* a large payment: with a unit payment a year later its root lies within
\* one Newton step of rate -1
BigAmt == 2 * RScale
Dates == {y * day_count : y \in 0..MaxYear}
Amounts == ((0 - MaxAmt)..MaxAmt) \cup {0 - BigAmt, BigAmt}
Entries == [date : Dates, amount : Amounts]
Series == UNION {[1..n -> Entries] : n \in 0..MaxLen}
\* guesses: at -1, just inside the domain, and zero
Guesses == {0 - RScale, 1 - RScale, 0}

VARIABLES cashflows, guess, pc, times, amounts, p0, itr, prev_r, prev_f, r,
          i, bracket, result, path, fault, stages, newtonExc

vars == <<cashflows, guess, pc, times, amounts, p0, itr, prev_r, prev_f, r,
          i, bracket, result, path, fault, stages, newtonExc>>

\* ------------------------------------------------------------- arithmetic
RECURSIVE Pow(_, _)
Pow(b, e) == IF e <= 0 THEN 1 ELSE b * Pow(b, e - 1)

Abs(x) == IF x < 0 THEN 0 - x ELSE x

Sgn(x) == IF x > 0 THEN 1 ELSE IF x < 0 THEN 0 - 1 ELSE 0

RECURSIVE SumOver(_, _)
SumOver(f, S) ==
    IF S = {} THEN 0
    ELSE LET x == CHOOSE y \in S : TRUE IN f[x] + SumOver(f, S \ {x})

SetMin(S) == CHOOSE x \in S : \A y \in S : x <= y
SetMax(S) == CHOOSE x \in S : \A y \in S : x >= y

\* num / den rounded to the nearest integer, halves away from zero (den # 0)
Round(num, den) ==
    LET n == IF den < 0 THEN 0 - num ELSE num
        d == Abs(den)
    IN  IF n >= 0 THEN (2 * n + d) \div (2 * d)
        ELSE 0 - ((2 * (0 - n) + d) \div (2 * d))

\* ------------------------------------------------------- _year_fractions
\* start = cashflows[0][0]
StartDate(cfs) == cfs[1].date

\* end = max(date for date, _ in cashflows)
EndDate(cfs) == SetMax({cfs[j].date : j \in 1..Len(cfs)})

\* times = [(dt - start).days / day_count ...], in whole years
year_fractions_times(cfs) ==
    [j \in 1..Len(cfs) |-> (cfs[j].date - StartDate(cfs)) \div day_count]

\* amounts = [amt for _, amt in cashflows]
year_fractions_amounts(cfs) == [j \in 1..Len(cfs) |-> cfs[j].amount]

\* ----------------------------------------------------- float range model
\* 1 + rate = B / RScale is a finite float for 0 < B <= Cap; a rate above
\* that is float("inf"), written PosInf
Cap == FloatMax * RScale
PosInf == Cap - RScale + 1

\* (b / s) ** e > FloatMax for b > s > 0 and e >= 0, the powers computed
\* only while they are in range
RECURSIVE Exceeds(_, _, _)
Exceeds(b, s, e) ==
    IF e <= 0 THEN FALSE
    ELSE Exceeds(b, s, e - 1) \/ Pow(b, e) > FloatMax * Pow(s, e)

\* (B / RScale) ** e is above the largest float
PowOverflows(B, e) ==
    IF e > 0 THEN B > RScale /\ Exceeds(B, RScale, e)
    ELSE IF e < 0 THEN B < RScale /\ Exceeds(RScale, B, 0 - e)
         ELSE FALSE

\* (B / RScale) ** e is below the smallest float: the power is 0.0
PowUnderflows(B, e) == PowOverflows(B, 0 - e)

\* what a Python float does with a / (B / RScale) ** e: 0.0 as the divisor
\* is a ZeroDivisionError, ** out of range an OverflowError
PowFault(B, e) ==
    IF PowUnderflows(B, e) THEN "ZeroDivisionError"
    ELSE IF PowOverflows(B, e) THEN "OverflowError"
    ELSE "ok"

\* the scalar type a solver hands to f and df: the scan and brentq pass a
\* Python float, newton passes whatever its build converts x0 to.  A numpy
\* float64 raises nothing: a power out of range is inf and a term over it
\* 0.0, a term over 0.0 is inf or nan
ScalarKinds == {"float", "float64"}

Idx == 1..Len(times)

\* the first term, in the order sum() evaluates them, whose power fails
FirstFault(B, off) ==
    LET bad == {j \in Idx : PowFault(B, times[j] + off) # "ok"}
    IN  IF bad = {} THEN "ok" ELSE PowFault(B, times[SetMin(bad)] + off)

\* the positive factor that clears the denominators of the terms in N
NormDen(B, N) ==
    IF N = {} THEN 1
    ELSE Pow(RScale, SetMax({0 - times[j] : j \in N} \cup {0}))
         * Pow(B, SetMax({times[j] : j \in N} \cup {0}))

\* NormDen(B, N) times the sum of coef[j] / (B / RScale) ** times[j] over the
\* terms j in J, a subset of N
NormNum(B, coef, J, N) ==
    LET em == SetMax({0 - times[j] : j \in N} \cup {0})
        eM == SetMax({times[j] : j \in N} \cup {0})
    IN  SumOver([j \in Idx |->
                   coef[j] * Pow(RScale, times[j] + em) * Pow(B, eM - times[j])],
                J)

Raise(e) == [k |-> "raise", exc |-> e, num |-> 0]
Val(n) == [k |-> "val", exc |-> "", num |-> n]
NonFinite(kind) == [k |-> kind, exc |-> "", num |-> 0]

\* the terms a float64 sum keeps at B (the others are a / inf = 0.0), for
\* f (off = 0) and df (off = 1)
Kept(B, off) == {j \in Idx : ~PowOverflows(B, times[j] + off)}

\* the terms f and df are normalised over when newton divides one by the other
StepTerms(sk, B) == IF sk = "float" THEN Idx ELSE Kept(B, 0) \cup Kept(B, 1)

\* ------------------------------------------------------------------ xnpv
\* the guard of xnpv and of _dxnpv_dr: if rate <= -1.0: raise ValueError
OutOfDomain(n) == n <= 0 - RScale

\* xnpv(rate, times, amounts) at rate n / RScale for a scalar of kind sk,
\* normalised over the terms N: the value (num / NormDen), the exception
\* raised, or a non-finite float64
xnpvN(sk, n, N) ==
    LET B == RScale + n
        coef == [j \in Idx |-> amounts[j]]
    IN  IF OutOfDomain(n) THEN Raise("ValueError")
        ELSE IF n = PosInf
        THEN IF \E j \in Idx : times[j] < 0
             THEN IF sk = "float" THEN Raise("ZeroDivisionError")
                  ELSE NonFinite("nan")
             ELSE Val(SumOver(coef, {j \in Idx : times[j] = 0}))
        ELSE IF sk = "float"
        THEN LET e == FirstFault(B, 0)
             IN  IF e # "ok" THEN Raise(e) ELSE Val(NormNum(B, coef, Idx, N))
        ELSE IF \E j \in Idx : PowUnderflows(B, times[j])
             THEN NonFinite("nan")
             ELSE Val(NormNum(B, coef, Kept(B, 0), N))

\* f(r) as the scan and brentq call it
xnpv(n) == xnpvN("float", n, Idx)

\* ------------------------------------------------------------- _dxnpv_dr
\* _dxnpv_dr at rate n / RScale: sum of -t * a / (1 + rate) ** (t + 1).  Its
\* value is RScale * num / (B * NormDen).  For a float64 a term over a power
\* that is 0.0 is +-inf, or nan when -t * a is zero
dxnpv_dr(sk, n, N) ==
    LET B == RScale + n
        coef == [j \in Idx |-> (0 - times[j]) * amounts[j]]
        U == {j \in Idx : PowUnderflows(B, times[j] + 1)}
    IN  IF OutOfDomain(n) THEN Raise("ValueError")
        ELSE IF n = PosInf
        THEN IF \E j \in Idx : times[j] + 1 < 0
             THEN IF sk = "float" THEN Raise("ZeroDivisionError")
                  ELSE NonFinite("nan")
             ELSE Val(SumOver(coef, {j \in Idx : times[j] + 1 = 0}))
        ELSE IF sk = "float"
        THEN LET e == FirstFault(B, 1)
             IN  IF e # "ok" THEN Raise(e) ELSE Val(NormNum(B, coef, Idx, N))
        ELSE IF U # {}
             THEN IF (\E j \in U : coef[j] = 0)
                     \/ (\E j, l \in U : coef[j] > 0 /\ coef[l] < 0)
                  THEN NonFinite("nan")
                  ELSE NonFinite("inf")
             ELSE Val(NormNum(B, coef, Kept(B, 1), N))

\* |xnpv(rate)| < tol for the real value of the sum at rate n / RScale > -1
ResidualBelowTol(n) ==
    LET B == RScale + n
        coef == [j \in Idx |-> amounts[j]]
    IN  IF n = PosInf
        THEN /\ ~(\E j \in Idx : times[j] < 0 /\ amounts[j] # 0)
             /\ Abs(SumOver(coef, {j \in Idx : times[j] = 0})) * RScale < tol
        ELSE Abs(NormNum(B, coef, Idx, Idx)) <= (tol * NormDen(B, Idx) - 1) \div RScale

\* ---------------------------------------------------------------- newton
\* one pass of scipy.optimize.newton's loop at iterate p (fprime given,
\* rtol = 0, disp = True): evaluate f, return p on an exact zero, evaluate
\* df, fail on a zero derivative, step, return the new iterate when it is
\* within tol of the old one.  A non-finite f, or a nan derivative, makes
\* every later iterate nan and the loop ends in RuntimeError; an infinite
\* derivative makes the step 0.0
Ret(x) == [k |-> "return", exc |-> "", x |-> x]
Exc(e) == [k |-> "raise", exc |-> e, x |-> 0]
Nxt(x) == [k |-> "next", exc |-> "", x |-> x]

newton_iter(sk, p) ==
    LET N == StepTerms(sk, RScale + p)
        fval == xnpvN(sk, p, N)
        fder == dxnpv_dr(sk, p, N)
        q == p - Round(fval.num * (RScale + p), fder.num)
    IN  IF fval.k = "raise" THEN Exc(fval.exc)
        ELSE IF fval.k # "val" THEN Exc("RuntimeError")
        ELSE IF fval.num = 0 THEN Ret(p)
        ELSE IF fder.k = "raise" THEN Exc(fder.exc)
        ELSE IF fder.k = "nan" THEN Exc("RuntimeError")
        ELSE IF fder.k = "inf" THEN Ret(p)
        ELSE IF fder.num = 0 \/ p = PosInf THEN Exc("RuntimeError")
        ELSE IF Abs(q - p) <= tol THEN Ret(q)
        ELSE IF q >= PosInf THEN Nxt(PosInf)
        ELSE Nxt(q)

\* ------------------------------------------------------------------ scan
INF == [inf |-> TRUE, s |-> 1]
Fin(x) == [inf |-> FALSE, s |-> Sgn(x)]

\* try: f(r)  except Exception: float("inf")   (the sign of the value is kept)
ScanEval(n) ==
    LET v == xnpv(n)
    IN  IF v.k = "raise" THEN INF ELSE Fin(v.num)

\* prev_f == 0.0, curr_f == 0.0
IsZero(f) == ~f.inf /\ f.s = 0

\* a sign test that lets only two finite values differ in sign, as if the
\* sentinel had no sign
FiniteSignChange(f, g) == ~f.inf /\ ~g.inf /\ f.s * g.s < 0

\* prev_f * curr_f < 0.0
SignChange(f, g) == f.s * g.s < 0

NoBracket == [found |-> FALSE, low |-> 0, high |-> 0]
Bracket(lo, hi) == [found |-> TRUE, low |-> lo, high |-> hi]

\* ---------------------------------------------------------------- brentq
\* scipy.optimize.brentq(f, low, high, xtol=tol): f(low) and f(high) are
\* evaluated first and an exception of f leaves brentq; end values of one
\* sign are a ValueError; otherwise the result is a point of [low, high]
\* within xtol of a zero or of a sign change of f
brentq_raises(lo, hi) ==
    IF xnpv(lo).k = "raise" THEN xnpv(lo).exc
    ELSE IF xnpv(hi).k = "raise" THEN xnpv(hi).exc
    ELSE IF xnpv(lo).num * xnpv(hi).num > 0 THEN "ValueError"
    ELSE "ok"

brentq_roots(lo, hi) ==
    {n \in lo..hi :
        \/ xnpv(n).num = 0
        \/ \E m \in lo..hi :
              /\ m # n
              /\ Abs(m - n) <= tol
              /\ Sgn(xnpv(n).num) * Sgn(xnpv(m).num) <= 0}

\* ------------------------------------------------------------------ xirr
None == [ok |-> FALSE, rate |-> 0]
Rate(x) == [ok |-> TRUE, rate |-> x]

\* a validation that rejects a series only when it has neither a positive
\* nor a negative amount
NoAmountOfEitherSign(am) ==
    /\ ~(\E j \in 1..Len(am) : am[j] > 0)
    /\ ~(\E j \in 1..Len(am) : am[j] < 0)

\* not any(a > 0 for a in amounts) or not any(a < 0 for a in amounts)
NoSignChangeInAmounts(am) ==
    \/ ~(\E j \in 1..Len(am) : am[j] > 0)
    \/ ~(\E j \in 1..Len(am) : am[j] < 0)

\* except (RuntimeError, OverflowError, ValueError)
NewtonCaught == {"RuntimeError", "OverflowError", "ValueError"}

\* a Newton stage without the domain check on its result
AcceptsAnyRate(x) == TRUE

\* if irr > -1.0
NewtonAccepts(x) == x > 0 - RScale

\* an orchestrator without the shortcut for a one-point bracket
NeverDegenerate(b) == FALSE

\* if low == high: return low
IsDegenerate(b) == b.low = b.high

\* a handler around brentq as narrow as the one around newton
CaughtLikeNewton(e) == e \in NewtonCaught

\* except Exception (around brentq)
BrentCaught(e) == TRUE

Init ==
    /\ cashflows \in Series
    /\ guess \in Guesses
    /\ pc = "Start"
    /\ times = <<>>
    /\ amounts = <<>>
    /\ p0 = 0
    /\ itr = 0
    /\ prev_r = 0
    /\ prev_f = Fin(0)
    /\ r = 0
    /\ i = 0
    /\ bracket = NoBracket
    /\ result = None
    /\ path = ""
    /\ fault = ""
    /\ stages = <<>>
    /\ newtonExc = ""

\* line 149: times, amounts, _, _ = _year_fractions(cashflows); indexing an
\* empty list is an IndexError, which nothing in xirr catches
YearFractions ==
    /\ pc = "Start"
    /\ IF Len(cashflows) = 0
       THEN /\ pc' = "Fault"
            /\ fault' = "IndexError"
            /\ UNCHANGED <<times, amounts>>
       ELSE /\ pc' = "Validate"
            /\ times' = year_fractions_times(cashflows)
            /\ amounts' = year_fractions_amounts(cashflows)
            /\ UNCHANGED fault
    /\ UNCHANGED <<cashflows, guess, p0, itr, prev_r, prev_f, r, i, bracket,
                   result, path, stages, newtonExc>>

\* lines 151-153
Validate ==
    /\ pc = "Validate"
    /\ IF NoSignChangeInAmounts(amounts)
       THEN /\ pc' = "Done"
            /\ path' = "validation"
            /\ UNCHANGED <<p0, stages>>
       ELSE /\ pc' = "Newton"
            /\ p0' = guess
            /\ stages' = Append(stages, "Newton")
            /\ UNCHANGED path
    /\ UNCHANGED <<cashflows, guess, times, amounts, itr, prev_r, prev_f, r, i,
                   bracket, result, fault, newtonExc>>

\* what xirr does with the way newton ended: lines 162-168
NewtonEnds(o) ==
    IF o.k = "return" /\ NewtonAccepts(o.x)
    THEN /\ pc' = "Done"
         /\ result' = Rate(o.x)
         /\ path' = "newton"
         /\ UNCHANGED <<fault, newtonExc>>
    ELSE IF o.k = "return"
    THEN /\ pc' = "ScanInit"
         /\ newtonExc' = "rejected"
         /\ UNCHANGED <<result, path, fault>>
    ELSE IF o.exc \in NewtonCaught
    THEN /\ pc' = "ScanInit"
         /\ newtonExc' = o.exc
         /\ UNCHANGED <<result, path, fault>>
    ELSE /\ pc' = "Fault"
         /\ fault' = o.exc
         /\ UNCHANGED <<result, path, newtonExc>>

\* line 163, one iteration of newton(func=f, x0=guess, fprime=df, ...)
NewtonStep ==
    /\ pc = "Newton"
    /\ itr < maxiter
    /\ \E sk \in ScalarKinds :
          LET o == newton_iter(sk, p0)
          IN  IF o.k = "next"
              THEN /\ p0' = o.x
                   /\ itr' = itr + 1
                   /\ UNCHANGED <<pc, result, path, fault, newtonExc>>
              ELSE /\ NewtonEnds(o)
                   /\ itr' = itr + 1
                   /\ UNCHANGED p0
    /\ UNCHANGED <<cashflows, guess, times, amounts, prev_r, prev_f, r, i,
                   bracket, stages>>

\* newton's loop ran maxiter times without converging: RuntimeError
NewtonExhausted ==
    /\ pc = "Newton"
    /\ itr >= maxiter
    /\ NewtonEnds(Exc("RuntimeError"))
    /\ UNCHANGED <<cashflows, guess, times, amounts, p0, itr, prev_r, prev_f,
                   r, i, bracket, stages>>

\* lines 171-181
ScanInit ==
    /\ pc = "ScanInit"
    /\ pc' = "Scan"
    /\ prev_r' = scan_min
    /\ prev_f' = ScanEval(scan_min)
    /\ r' = scan_min + step
    /\ i' = 0
    /\ bracket' = NoBracket
    /\ stages' = Append(stages, "Scan")
    /\ UNCHANGED <<cashflows, guess, times, amounts, p0, itr, result, path,
                   fault, newtonExc>>

\* a loop body that reports the previous sample when the current one is zero
ScanBodyPrevOnZero(pr, pf, rr) ==
    LET curr_f == ScanEval(rr)
    IN  IF IsZero(pf) THEN Bracket(pr, pr)
        ELSE IF IsZero(curr_f) THEN Bracket(pr, pr)
        ELSE IF SignChange(pf, curr_f) THEN Bracket(pr, rr)
        ELSE NoBracket

\* the body of "for _ in range(n_steps)": the bracket chosen at r, if any
ScanBody(pr, pf, rr) ==
    LET curr_f == ScanEval(rr)
    IN  IF IsZero(pf) THEN Bracket(pr, pr)
        ELSE IF IsZero(curr_f) THEN Bracket(rr, rr)
        ELSE IF SignChange(pf, curr_f) THEN Bracket(pr, rr)
        ELSE NoBracket

\* lines 182-197, one pass of the loop; a break or the last pass leaves it
ScanStep_ ==
    /\ pc = "Scan"
    /\ i < n_steps
    /\ LET b == ScanBody(prev_r, prev_f, r)
       IN  IF b.found
           THEN /\ bracket' = b
                /\ pc' = "BracketCheck"
                /\ UNCHANGED <<prev_r, prev_f, r, i>>
           ELSE /\ prev_r' = r
                /\ prev_f' = ScanEval(r)
                /\ r' = r + step
                /\ i' = i + 1
                /\ pc' = IF i + 1 >= n_steps THEN "BracketCheck" ELSE "Scan"
                /\ UNCHANGED bracket
    /\ UNCHANGED <<cashflows, guess, times, amounts, p0, itr, result, path,
                   fault, stages, newtonExc>>

\* lines 199-204
BracketCheck ==
    /\ pc = "BracketCheck"
    /\ IF ~bracket.found
       THEN /\ pc' = "Done"
            /\ path' = "nobracket"
            /\ UNCHANGED <<result, stages>>
       ELSE IF IsDegenerate(bracket)
       THEN /\ pc' = "Done"
            /\ result' = Rate(bracket.low)
            /\ path' = "degenerate"
            /\ UNCHANGED stages
       ELSE /\ pc' = "Brent"
            /\ stages' = Append(stages, "Brent")
            /\ UNCHANGED <<result, path>>
    /\ UNCHANGED <<cashflows, guess, times, amounts, p0, itr, prev_r, prev_f,
                   r, i, bracket, fault, newtonExc>>

\* lines 205-209: brentq(f, low, high, xtol=tol) inside try / except
BracketedSolve ==
    /\ pc = "Brent"
    /\ LET e == brentq_raises(bracket.low, bracket.high)
       IN  IF e = "ok"
           THEN /\ pc' = "Done"
                /\ path' = "brentq"
                /\ \E x \in brentq_roots(bracket.low, bracket.high) :
                      result' = Rate(x)
                /\ UNCHANGED fault
           ELSE IF BrentCaught(e)
           THEN /\ pc' = "Done"
                /\ path' = "brentq_failed"
                /\ UNCHANGED <<result, fault>>
           ELSE /\ pc' = "Fault"
                /\ fault' = e
                /\ UNCHANGED <<result, path>>
    /\ UNCHANGED <<cashflows, guess, times, amounts, p0, itr, prev_r, prev_f,
                   r, i, bracket, stages, newtonExc>>

Next ==
    \/ YearFractions
    \/ Validate
    \/ NewtonStep
    \/ NewtonExhausted
    \/ ScanInit
    \/ ScanStep_
    \/ BracketCheck
    \/ BracketedSolve

Spec == Init /\ [][Next]_vars

\* ------------------------------------------------------------- properties
InStages(st) == \E k \in 1..Len(stages) : stages[k] = st

MinDate(cfs) == SetMin({cfs[j].date : j \in 1..Len(cfs)})

\* the scan grid and what the scan sees at its k-th sample (a failed
\* evaluation counts as +infinity)
Sample(k) == scan_min + k * step
SampleVal(k) == ScanEval(Sample(k))
ZeroAt(k) == SampleVal(k) = Fin(0)
OppositeAt(k) == SampleVal(k).s * SampleVal(k + 1).s < 0

\* a bracket becomes visible at sample h: a zero there, or opposite signs of
\* samples h - 1 and h
HitAt(h) == ZeroAt(h) \/ (h >= 1 /\ OppositeAt(h - 1))

\* the bracket seen at sample h
BracketAt(h) ==
    IF ZeroAt(h) THEN Bracket(Sample(h), Sample(h))
    ELSE Bracket(Sample(h - 1), Sample(h))

\* the scan has handed its bracket, or none, to the orchestrator
ScanOver == pc = "BracketCheck"

\* C1: a non-empty series whose amounts are all >= 0 or all <= 0 ends in
\* NoSolution (None) and no stage - Newton, scan, bracketed solve - was entered
C1_OneSignedSeriesIsNoSolution ==
    ( /\ Len(cashflows) >= 1
      /\ \/ \A j \in 1..Len(cashflows) : cashflows[j].amount >= 0
         \/ \A j \in 1..Len(cashflows) : cashflows[j].amount <= 0
      /\ pc \notin {"Start", "Validate"} )
    => /\ pc = "Done"
       /\ ~result.ok
       /\ stages = <<>>
       /\ itr = 0
       /\ i = 0

C1_Witness ==
    /\ pc = "Done"
    /\ Len(cashflows) = MaxLen
    /\ \A j \in 1..Len(cashflows) : cashflows[j].amount > 0
    /\ ~result.ok

\* C2: a rate returned as a success is strictly greater than -1, whichever
\* stage produced it and whatever the guess did to the Newton iterates
C2_ReturnedRateInDomain ==
    (pc = "Done" /\ result.ok) => result.rate > 0 - RScale

\* Newton was driven to or below -1 and xirr still returned a rate
C2_Witness ==
    /\ pc = "Done"
    /\ result.ok
    /\ newtonExc \in {"rejected", "ValueError"}

C4_TimesFromMinDate ==
    (Len(cashflows) >= 1 /\ pc # "Start")
    => /\ Len(times) = Len(cashflows)
       /\ \A j \in 1..Len(cashflows) :
             /\ times[j] * day_count = cashflows[j].date - MinDate(cashflows)
             /\ times[j] >= 0
             /\ amounts[j] = cashflows[j].amount
       /\ \E j \in 1..Len(cashflows) : times[j] = 0

\* C5: an empty series ends in the EmptyInput outcome, not in a generic
\* fault, and no stage was entered
C5_EmptyInputOutcome ==
    (Len(cashflows) = 0 /\ pc # "Start")
    => /\ fault = "EmptyInput"
       /\ stages = <<>>

\* C6: the stages are entered in the order Newton, scan, bracketed solve; an
\* accepted Newton rate is returned without a scan; every other way the
\* Newton stage ends starts the scan, and none ends xirr in a fault
C6_NewtonFailureFallsThrough ==
    /\ \E n \in 0..3 : stages = SubSeq(<<"Newton", "Scan", "Brent">>, 1, n)
    /\ (pc = "Done" /\ path = "newton") => (result.ok /\ ~InStages("Scan"))
    /\ InStages("Newton") => pc # "Fault"
    /\ (InStages("Newton") /\ pc \notin {"Newton", "ScanInit"} /\ path # "newton")
          => InStages("Scan")

\* C7: when the scan is reached and its lowest zero sample comes before any
\* pair of samples with opposite signs, that sample's rate is the result and
\* the bracketed solver is never entered
C7_ZeroSampleReturnedDirectly ==
    (InStages("Scan") /\ (pc \in {"Brent", "Done"} \/ InStages("Brent"))) =>
       \A k \in 0..n_steps :
          ( /\ ZeroAt(k)
            /\ \A j \in 0..(k - 1) : ~ZeroAt(j) /\ ~OppositeAt(j) )
          => /\ ~InStages("Brent")
             /\ pc # "Brent"
             /\ pc = "Done" => (path = "degenerate" /\ result = Rate(Sample(k)))

\* a zero found at a sample after the first
C7_Witness ==
    /\ pc = "Done"
    /\ path = "degenerate"
    /\ bracket.low > scan_min
    /\ ~InStages("Brent")

\* C8: the scan goes through the samples left to right and ends with the
\* first bracket in that order - a zero sample or a pair of opposite signs,
\* whichever comes first - and with no bracket exactly when there is none
C8_ScanReturnsFirstBracket ==
    /\ pc = "Scan"
          => /\ prev_r = Sample(i)
             /\ r = Sample(i + 1)
             /\ prev_f = SampleVal(i)
             /\ HitAt(i) => (i = 0 /\ ZeroAt(0))
             /\ ~bracket.found
    /\ (ScanOver /\ bracket.found)
          => \E h \in 0..n_steps :
                /\ Sample(h) = bracket.high
                /\ HitAt(h)
                /\ bracket = BracketAt(h)
                /\ \A g \in 0..(h - 1) : ~HitAt(g)
    /\ (ScanOver /\ ~bracket.found)
          => /\ bracket = NoBracket
             /\ \A h \in 0..n_steps : ~HitAt(h)

\* the scan stopped at a bracket although a later one exists
C8_Witness ==
    /\ pc = "BracketCheck"
    /\ bracket.found
    /\ \E h \in 0..n_steps : Sample(h) > bracket.high /\ HitAt(h)

\* C9: a call ends in a rate or in NoSolution, never in anything else;
\* newton makes at most maxiter iterations, the scan at most n_steps steps,
\* and no stage is entered twice
C9_TwoOutcomesBoundedWork ==
    /\ pc # "Fault"
    /\ fault = ""
    /\ itr <= maxiter
    /\ i <= n_steps
    /\ \A k, l \in 1..Len(stages) : stages[k] = stages[l] => k = l

\* C10: a scan sample whose evaluation fails counts as +infinity and the
\* scan goes on; a bracket with such a sample as an endpoint ends xirr in
\* NoSolution: no fault, no rate outside the window, no second scan
C10_FailedSampleIsSentinel ==
    /\ InStages("Scan") => (pc # "Fault" /\ fault = "")
    /\ pc = "Scan" => (prev_f.inf <=> xnpv(prev_r).k = "raise")
    /\ (pc = "Scan" /\ prev_f.inf) => prev_f.s = 1
    /\ ( /\ pc = "Done"
         /\ bracket.found
         /\ xnpv(bracket.low).k = "raise" \/ xnpv(bracket.high).k = "raise" )
       => /\ ~result.ok
          /\ path = "brentq_failed"
          /\ stages = <<"Newton", "Scan", "Brent">>
    /\ (pc = "Done" /\ result.ok /\ InStages("Scan"))
          => (scan_min <= result.rate /\ result.rate <= scan_max)

\* the bracketed solver failed on a bracket one of whose ends is a failed sample
C10_Witness ==
    /\ pc = "Done"
    /\ path = "brentq_failed"
    /\ xnpv(bracket.low).k = "raise" \/ xnpv(bracket.high).k = "raise"
    /\ ~result.ok
=============================================================================
